---- MODULE Spec2Model ----
(***************************************************************************)
(* Model of step2_pseudo_labeling/bert-large/run.py: the cross-validation  *)
(* training script.  The script is one sequential process; `pc` is its     *)
(* position.  Library calls (cross_validation_split, get_model_optimizer,  *)
(* train_loop, evaluate, infer, DataFrame.sample, torch.save, to_csv) are  *)
(* modelled by what run.py observes of them: the values they return are    *)
(* drawn from small sets, and every one of them may raise.                 *)
(*                                                                         *)
(* Scores are integers standing for the correlation score scaled to        *)
(* -1.0 .. 1.0, so -1 is the score -1.0.                                   *)
(***************************************************************************)
EXTENDS Integers, Sequences, FiniteSets, TLC

\* ---- bounds of the model ------------------------------------------------
NFolds == 2          \* args.folds
MaxEpochs == 2       \* largest args.epochs explored
MaxAcc == 2          \* largest args.batch_accumulation explored
MaxNPseudo == 1      \* largest args.n_pseudo explored
PseudoLen == 2       \* rows of each fold's pseudo-label file
TrainLen == 1        \* len(train_set) of every fold

\* ---- program constants --------------------------------------------------
InitBestScore == -1  \* best_score = -1.0

Folds == 0 .. (NFolds - 1)
Scores == {-1, 0, 1}

\* ---- values -------------------------------------------------------------
\* A row of a saved file: which run wrote it, for which fold, and how many
\* epochs the model that produced it had been trained in that fold.
Row(kind, run, f, t) == [kind |-> kind, run |-> run, fold |-> f, trained |-> t]

Absent == [exists |-> FALSE, data |-> << >>]
File(rows) == [exists |-> TRUE, data |-> rows]
Partial == File(<<Row("partial", "new", -1, -1)>>)

\* os.path.join(dir, "fold{}".format(fold), name.format(epoch))
EpochPathNoEpoch(dir, f, name, e) == [dir |-> dir, fold |-> f, name |-> name, epoch |-> 0]
EpochPath(dir, f, name, e) == [dir |-> dir, fold |-> f, name |-> name, epoch |-> e]
BestPath(dir, f, name) == [dir |-> dir, fold |-> f, name |-> name, epoch |-> -1]
OofPath == [dir |-> "predictions", fold |-> -1, name |-> "oof.csv", epoch |-> -1]

EpochPathsOf(f, e) ==
    { EpochPath("checkpoints", f, "model_on_epoch", e),
      EpochPath("predictions", f, "val_on_epoch", e),
      EpochPath("predictions", f, "test_on_epoch", e) }
BestPathsOf(f) ==
    { BestPath("checkpoints", f, "best_model.pth"),
      BestPath("predictions", f, "best_val.csv"),
      BestPath("predictions", f, "best_test.csv") }
Paths ==
    UNION { [dir : {"checkpoints"}, fold : {f}, name : {"model_on_epoch"}, epoch : 0 .. (MaxEpochs + 1)]
            \cup [dir : {"predictions"}, fold : {f}, name : {"val_on_epoch", "test_on_epoch"},
                  epoch : 0 .. (MaxEpochs + 1)]
            \cup BestPathsOf(f) : f \in Folds }
    \cup {OofPath}

\* the datasets cross_validation_split yields for a fold; a dataset is
\* modelled by the set of its items
Items(src, f, n) == { [src |-> src, fold |-> f, idx |-> i] : i \in 1 .. n }
TrainSet(f) == Items("train", f, TrainLen)
ValidSet(f) == Items("valid", f, 1)
\* the rows of pd.read_csv(args.pseudo_file.format(fold))
PseudoDf(f) == Items("pseudo", f, PseudoLen)

\* ascending sequence of the elements of a set of integers
RECURSIVE Ascending(_)
Ascending(S) ==
    IF S = {} THEN << >>
    ELSE LET m == CHOOSE x \in S : \A y \in S : x <= y
         IN <<m>> \o Ascending(S \ {m})

Max(S) == CHOOSE x \in S : \A y \in S : y <= x
IsPrefix(s, t) == Len(s) <= Len(t) /\ \A i \in 1 .. Len(s) : s[i] = t[i]

VARIABLES
    args,              \* the parsed command line
    pc,                \* position in the script
    error,             \* "none", "library" (a library call raised) or "NameError"
    gen,               \* folds cross_validation_split has still to yield
    fold, epoch,       \* loop variables
    bound,             \* which of the names the cleanup deletes are bound
    train_set, valid_set,
    iteration, best_score,
    model, optimizer, scheduler,
    epoch_train_set, train_loader,
    score, val_preds, val_preds_df, test_preds, test_preds_df,
    files,             \* the experiment directory
    \* observations of the run, not read by the script
    log,               \* calls of train_loop / evaluate / infer / oof so far
    returned,          \* iteration the last train_loop call of the fold returned
    maxSeen,           \* largest of -1.0 and the scores of the fold's completed epochs
    prevMax,           \* maxSeen before the last completed epoch
    firstMax,          \* first epoch of the fold whose score was maxSeen
    lastWrote,         \* the last completed epoch wrote the best_* files
    wroteAny,          \* some epoch of the fold wrote the best_* files
    built,             \* per fold: number of get_model_optimizer calls
    snap,              \* files as they were when the last epoch completed
    completed,         \* the <<fold, epoch>> bodies that completed in this run
    oofWritten         \* this run wrote oof.csv

prog == <<args, pc, error, gen, fold, epoch, bound, train_set, valid_set,
          iteration, best_score, model, optimizer, scheduler, epoch_train_set,
          train_loader, score, val_preds, val_preds_df, test_preds,
          test_preds_df, files>>
observed == <<log, returned, maxSeen, prevMax, firstMax, lastWrote, wroteAny,
              built, snap, completed, oofWritten>>
vars == <<prog, observed>>

\* ---- initial state: the module level up to line 99 has run --------------
\* The experiment directory is empty unless the run resumes an experiment
\* (implicit_resuming = args.use_folds is not None); then an earlier run of
\* the experiment may have left the best_* files of the folds and oof.csv.
OldFiles(old) ==
    [p \in Paths |->
        IF p \in UNION { BestPathsOf(f) : f \in old }
            THEN File(<<Row(p.name, "old", p.fold, 0)>>)
        ELSE IF p = OofPath /\ old = Folds
            THEN File([i \in 1 .. NFolds |-> Row("best_val.csv", "old", i - 1, 0)])
        ELSE Absent]

\* what the script's variables hold in the model while their names are unbound
Unbound ==
    [gen |-> << >>, fold |-> 0, epoch |-> 0,
     train_set |-> {}, valid_set |-> {},
     iteration |-> 0, best_score |-> InitBestScore,
     model |-> [fold |-> -1, trained |-> 0],
     optimizer |-> [fold |-> -1, n |-> 0],
     scheduler |-> [optimizer |-> [fold |-> -1, n |-> 0], epoch |-> -1,
                    num |-> 0, den |-> 1, steps |-> 0],
     epoch_train_set |-> << >>, train_loader |-> 0,
     score |-> InitBestScore,
     val_preds |-> Row("val", "new", -1, 0), val_preds_df |-> << >>,
     test_preds |-> Row("test", "new", -1, 0), test_preds_df |-> << >>]

ArgsSet ==
    { a \in [epochs : 0 .. MaxEpochs,
             batch_accumulation : 1 .. MaxAcc,
             batch_size : {TrainLen, TrainLen + 1},
             resume : BOOLEAN,
             use_folds : SUBSET Folds,
             pseudo_file : BOOLEAN,
             n_pseudo : 0 .. MaxNPseudo] :
        /\ (~a.resume => a.use_folds = Folds)
        /\ (a.pseudo_file => a.n_pseudo >= 1)
        /\ (~a.pseudo_file => a.n_pseudo = 0) }

InitWith(A) ==
    /\ args \in A
    /\ pc = "for_fold"
    /\ error = "none"
    /\ gen = Ascending(args.use_folds)
    /\ fold = Unbound.fold /\ epoch = Unbound.epoch
    /\ bound = {}
    /\ train_set = Unbound.train_set /\ valid_set = Unbound.valid_set
    /\ iteration = Unbound.iteration /\ best_score = Unbound.best_score
    /\ model = Unbound.model
    /\ optimizer = Unbound.optimizer
    /\ scheduler = Unbound.scheduler
    /\ epoch_train_set = Unbound.epoch_train_set
    /\ train_loader = Unbound.train_loader
    /\ score = Unbound.score
    /\ val_preds = Unbound.val_preds /\ val_preds_df = Unbound.val_preds_df
    /\ test_preds = Unbound.test_preds /\ test_preds_df = Unbound.test_preds_df
    /\ \E old \in {{}, Folds} :
          /\ (~args.resume => old = {})
          /\ files = OldFiles(old)
          /\ snap = OldFiles(old)
    /\ log = << >>
    /\ returned = 0
    /\ maxSeen = InitBestScore /\ prevMax = InitBestScore /\ firstMax = -1
    /\ lastWrote = FALSE /\ wroteAny = FALSE
    /\ built = [f \in Folds |-> 0]
    /\ completed = {}
    /\ oofWritten = FALSE

\* runs without pseudo labels, gradient accumulation 1, one batch per epoch
Init ==
    InitWith({ a \in ArgsSet : /\ ~a.pseudo_file
                               /\ a.batch_accumulation = 1
                               /\ a.batch_size = TrainLen })
\* fresh runs over all folds, with and without pseudo labels
InitPseudo ==
    InitWith({ a \in ArgsSet : /\ ~a.resume
                               /\ a.batch_accumulation = 1
                               /\ a.batch_size = TrainLen })
\* fresh runs over all folds, every batch_accumulation and batch_size
InitScheduler ==
    InitWith({ a \in ArgsSet : ~a.resume /\ ~a.pseudo_file })

\* ---- a library call raises: nothing catches it, the interpreter exits ---
LibraryCalls ==
    {"for_fold", "fold_init", "loader", "train", "evaluate", "save_model",
     "save_val", "infer", "save_test", "best_model", "best_val", "best_test",
     "cleanup", "oof"}
    \cup (IF args.pseudo_file THEN {"train_set"} ELSE {})

Swallow(kind) ==
    /\ error' = kind
    /\ pc' = pc
Raise(kind) ==
    /\ error' = kind
    /\ pc' = "raised"

\* the process is gone, and with it the module namespace
Exit ==
    /\ gen' = Unbound.gen
    /\ fold' = Unbound.fold /\ epoch' = Unbound.epoch
    /\ bound' = {}
    /\ train_set' = Unbound.train_set /\ valid_set' = Unbound.valid_set
    /\ iteration' = Unbound.iteration /\ best_score' = Unbound.best_score
    /\ model' = Unbound.model
    /\ optimizer' = Unbound.optimizer
    /\ scheduler' = Unbound.scheduler
    /\ epoch_train_set' = Unbound.epoch_train_set
    /\ train_loader' = Unbound.train_loader
    /\ score' = Unbound.score
    /\ val_preds' = Unbound.val_preds /\ val_preds_df' = Unbound.val_preds_df
    /\ test_preds' = Unbound.test_preds /\ test_preds_df' = Unbound.test_preds_df

Fail ==
    /\ pc \in LibraryCalls
    /\ Raise("library")
    /\ Exit
    /\ UNCHANGED <<args, files, log, returned, maxSeen, prevMax, firstMax,
                   lastWrote, wroteAny, built, snap, completed, oofWritten>>

\* the file a saving step is writing
Target ==
    CASE pc = "save_model" -> EpochPath("checkpoints", fold, "model_on_epoch", epoch)
      [] pc = "save_val"   -> EpochPath("predictions", fold, "val_on_epoch", epoch)
      [] pc = "save_test"  -> EpochPath("predictions", fold, "test_on_epoch", epoch)
      [] pc = "best_model" -> BestPath("checkpoints", fold, "best_model.pth")
      [] pc = "best_val"   -> BestPath("predictions", fold, "best_val.csv")
      [] pc = "best_test"  -> BestPath("predictions", fold, "best_test.csv")

\* torch.save / to_csv raises after it has opened (truncated) its file
FailWrite ==
    /\ pc \in {"save_model", "save_val", "save_test", "best_model", "best_val", "best_test"}
    /\ files' = [files EXCEPT ![Target] = Partial]
    /\ Raise("library")
    /\ Exit
    /\ UNCHANGED <<args, log, returned, maxSeen, prevMax, firstMax,
                   lastWrote, wroteAny, built, snap, completed, oofWritten>>

\* ---- line 101: the for statement asks the generator for the next fold ---
ForFoldNext ==
    /\ pc = "for_fold"
    /\ gen # << >>
    /\ fold' = Head(gen)
    /\ gen' = Tail(gen)
    /\ train_set' = TrainSet(Head(gen))
    /\ valid_set' = ValidSet(Head(gen))
    /\ bound' = bound \cup {"train_set", "valid_set"}
    /\ pc' = "fold_init"
    /\ UNCHANGED <<args, error, epoch, iteration, best_score, model,
                   optimizer, scheduler, epoch_train_set, train_loader,
                   score, val_preds, val_preds_df, test_preds, test_preds_df,
                   files, log, returned, maxSeen, prevMax, firstMax,
                   lastWrote, wroteAny, built, snap, completed, oofWritten>>

ForFoldExhausted ==
    /\ pc = "for_fold"
    /\ gen = << >>
    /\ pc' = "oof"
    /\ UNCHANGED <<args, error, gen, fold, epoch, bound, train_set,
                   valid_set, iteration, best_score, model, optimizer,
                   scheduler, epoch_train_set, train_loader, score,
                   val_preds, val_preds_df, test_preds, test_preds_df, files,
                   log, returned, maxSeen, prevMax, firstMax, lastWrote,
                   wroteAny, built, snap, completed, oofWritten>>

\* ---- lines 109-129: per-fold initialisation -----------------------------
KeepBestScore ==
    /\ iteration' = 0
    /\ best_score' = best_score
ResetBookkeeping ==
    /\ iteration' = 0
    /\ best_score' = InitBestScore

FoldInit ==
    /\ pc = "fold_init"
    /\ ResetBookkeeping
    /\ model' = [fold |-> fold, trained |-> 0]
    /\ optimizer' = [fold |-> fold, n |-> built[fold] + 1]
    /\ built' = [built EXCEPT ![fold] = @ + 1]
    /\ bound' = bound \cup {"valid_loader", "model", "optimizer", "criterion"}
    /\ epoch' = 0
    /\ returned' = 0
    /\ maxSeen' = InitBestScore /\ prevMax' = InitBestScore /\ firstMax' = -1
    /\ lastWrote' = FALSE /\ wroteAny' = FALSE
    /\ pc' = "for_epoch"
    /\ UNCHANGED <<args, error, gen, fold, train_set, valid_set, scheduler,
                   epoch_train_set, train_loader, score, val_preds,
                   val_preds_df, test_preds, test_preds_df, files, log, snap,
                   completed, oofWritten>>

\* ---- line 131: for epoch in range(args.epochs) --------------------------
\* `epoch` holds the index range() yields next
EpochsLeftOffByOne == epoch <= args.epochs
EpochsLeft == epoch < args.epochs

ForEpochNext ==
    /\ pc = "for_epoch"
    /\ EpochsLeft
    /\ pc' = "train_set"
    /\ UNCHANGED <<args, error, gen, fold, epoch, bound, train_set,
                   valid_set, iteration, best_score, model, optimizer,
                   scheduler, epoch_train_set, train_loader, score,
                   val_preds, val_preds_df, test_preds, test_preds_df, files,
                   log, returned, maxSeen, prevMax, firstMax, lastWrote,
                   wroteAny, built, snap, completed, oofWritten>>

ForEpochExhausted ==
    /\ pc = "for_epoch"
    /\ ~EpochsLeft
    /\ pc' = "cleanup"
    /\ UNCHANGED <<args, error, gen, fold, epoch, bound, train_set,
                   valid_set, iteration, best_score, model, optimizer,
                   scheduler, epoch_train_set, train_loader, score,
                   val_preds, val_preds_df, test_preds, test_preds_df, files,
                   log, returned, maxSeen, prevMax, firstMax, lastWrote,
                   wroteAny, built, snap, completed, oofWritten>>

\* ---- lines 133-143: the epoch's training set ----------------------------
\* pseudo_df.sample(n): n distinct rows; raises when the frame has fewer
\* than n rows (then only Fail is enabled here).  A ConcatDataset is
\* modelled by the sequence of its datasets.
Samples(df, n) == { S \in SUBSET df : Cardinality(S) = n }

AccumulatedTrainSet == IF epoch = 0 THEN <<train_set>> ELSE epoch_train_set
BaseTrainSet == <<train_set>>

RECURSIVE DatasetLen(_)
DatasetLen(ds) ==
    IF ds = << >> THEN 0 ELSE Cardinality(Head(ds)) + DatasetLen(Tail(ds))

EpochTrainSet ==
    /\ pc = "train_set"
    /\ IF args.pseudo_file
          THEN \E pseudo_set \in Samples(PseudoDf(fold), args.n_pseudo) :
                  epoch_train_set' = BaseTrainSet \o <<pseudo_set>>
          ELSE epoch_train_set' = BaseTrainSet
    /\ pc' = "loader"
    /\ UNCHANGED <<args, error, gen, fold, epoch, bound, train_set,
                   valid_set, iteration, best_score, model, optimizer,
                   scheduler, train_loader, score, val_preds, val_preds_df,
                   test_preds, test_preds_df, files, log, returned, maxSeen,
                   prevMax, firstMax, lastWrote, wroteAny, built, snap,
                   completed, oofWritten>>

\* ---- lines 145-160: train_loader and scheduler --------------------------
\* len(DataLoader(..., batch_size=args.batch_size, drop_last=True))
LoaderLen(set) == DatasetLen(set) \div args.batch_size

\* num_training_steps is the true quotient num / den
ContinuedScheduler(n) ==
    [optimizer |-> optimizer, epoch |-> epoch, num |-> args.epochs * n,
     den |-> args.batch_accumulation,
     steps |-> IF epoch = 0 THEN 0 ELSE scheduler.steps]
NewScheduler(n) ==
    [optimizer |-> optimizer, epoch |-> epoch, num |-> args.epochs * n,
     den |-> args.batch_accumulation, steps |-> 0]

MakeLoader ==
    /\ pc = "loader"
    /\ train_loader' = LoaderLen(epoch_train_set)
    /\ scheduler' = NewScheduler(LoaderLen(epoch_train_set))
    /\ bound' = bound \cup {"train_loader", "scheduler"}
    /\ pc' = "train"
    /\ UNCHANGED <<args, error, gen, fold, epoch, train_set, valid_set,
                   iteration, best_score, model, optimizer, epoch_train_set,
                   score, val_preds, val_preds_df, test_preds, test_preds_df,
                   files, log, returned, maxSeen, prevMax, firstMax,
                   lastWrote, wroteAny, built, snap, completed, oofWritten>>

\* ---- lines 162-164: train_loop ------------------------------------------
\* train_loop goes over the train_loader batches; it steps the scheduler at
\* most once per batch and returns an advanced iteration counter
Call(op) == [op |-> op, fold |-> fold, epoch |-> epoch]

TrainLoop ==
    /\ pc = "train"
    /\ \E steps \in 0 .. train_loader, adv \in 0 .. train_loader :
          /\ scheduler' = [scheduler EXCEPT !.steps = @ + steps]
          /\ iteration' = iteration + adv
          /\ returned' = iteration + adv
    /\ model' = [model EXCEPT !.trained = @ + 1]
    /\ log' = Append(log, Call("train_loop"))
    /\ pc' = "evaluate"
    /\ UNCHANGED <<args, error, gen, fold, epoch, bound, train_set,
                   valid_set, best_score, optimizer, epoch_train_set,
                   train_loader, score, val_preds, val_preds_df, test_preds,
                   test_preds_df, files, maxSeen, prevMax, firstMax,
                   lastWrote, wroteAny, built, snap, completed, oofWritten>>

\* ---- lines 166-168: evaluate --------------------------------------------
Evaluate ==
    /\ pc = "evaluate"
    /\ \E sc \in Scores : score' = sc
    /\ val_preds' = Row("val", "new", model.fold, model.trained)
    /\ log' = Append(log, Call("evaluate"))
    /\ pc' = "save_model"
    /\ UNCHANGED <<args, error, gen, fold, epoch, bound, train_set,
                   valid_set, iteration, best_score, model, optimizer,
                   scheduler, epoch_train_set, train_loader, val_preds_df,
                   test_preds, test_preds_df, files, returned, maxSeen,
                   prevMax, firstMax, lastWrote, wroteAny, built, snap,
                   completed, oofWritten>>

\* ---- lines 176-179: torch.save(model.state_dict(), model_on_epoch) ------
StateDict == Row("model", "new", model.fold, model.trained)

SaveModel ==
    /\ pc = "save_model"
    /\ files' = [files EXCEPT ![Target] = File(<<StateDict>>)]
    /\ pc' = "save_val"
    /\ UNCHANGED <<args, error, gen, fold, epoch, bound, train_set,
                   valid_set, iteration, best_score, model, optimizer,
                   scheduler, epoch_train_set, train_loader, score,
                   val_preds, val_preds_df, test_preds, test_preds_df, log,
                   returned, maxSeen, prevMax, firstMax, lastWrote, wroteAny,
                   built, snap, completed, oofWritten>>

\* ---- lines 180-185: val_preds_df and val_on_epoch -----------------------
SaveVal ==
    /\ pc = "save_val"
    /\ val_preds_df' = <<val_preds>>
    /\ files' = [files EXCEPT ![Target] = File(<<val_preds>>)]
    /\ pc' = "infer"
    /\ UNCHANGED <<args, error, gen, fold, epoch, bound, train_set,
                   valid_set, iteration, best_score, model, optimizer,
                   scheduler, epoch_train_set, train_loader, score,
                   val_preds, test_preds, test_preds_df, log, returned,
                   maxSeen, prevMax, firstMax, lastWrote, wroteAny, built,
                   snap, completed, oofWritten>>

\* ---- line 187: infer ----------------------------------------------------
Infer ==
    /\ pc = "infer"
    /\ test_preds' = Row("test", "new", model.fold, model.trained)
    /\ log' = Append(log, Call("infer"))
    /\ pc' = "save_test"
    /\ UNCHANGED <<args, error, gen, fold, epoch, bound, train_set,
                   valid_set, iteration, best_score, model, optimizer,
                   scheduler, epoch_train_set, train_loader, score,
                   val_preds, val_preds_df, test_preds_df, files, returned,
                   maxSeen, prevMax, firstMax, lastWrote, wroteAny, built,
                   snap, completed, oofWritten>>

\* ---- lines 188-193: test_preds_df and test_on_epoch ---------------------
SaveTest ==
    /\ pc = "save_test"
    /\ test_preds_df' = <<test_preds>>
    /\ files' = [files EXCEPT ![Target] = File(<<test_preds>>)]
    /\ pc' = "cmp"
    /\ UNCHANGED <<args, error, gen, fold, epoch, bound, train_set,
                   valid_set, iteration, best_score, model, optimizer,
                   scheduler, epoch_train_set, train_loader, score,
                   val_preds, val_preds_df, test_preds, log, returned,
                   maxSeen, prevMax, firstMax, lastWrote, wroteAny, built,
                   snap, completed, oofWritten>>

\* ---- the epoch body is over: back to the for statement ------------------
EndEpoch(wrote, written) ==
    /\ epoch' = epoch + 1
    /\ pc' = "for_epoch"
    /\ prevMax' = maxSeen
    /\ maxSeen' = Max({maxSeen, score})
    /\ firstMax' = IF firstMax = -1 \/ score > maxSeen THEN epoch ELSE firstMax
    /\ lastWrote' = wrote
    /\ wroteAny' = (wroteAny \/ wrote)
    /\ snap' = written
    /\ completed' = completed \cup {[fold |-> fold, epoch |-> epoch]}

\* ---- lines 195-196: if score > best_score -------------------------------
BetterOrEqual(new, best) == new >= best
Better(new, best) == new > best

NewBest ==
    /\ pc = "cmp"
    /\ Better(score, best_score)
    /\ best_score' = score
    /\ pc' = "best_model"
    /\ UNCHANGED <<args, error, gen, fold, epoch, bound, train_set,
                   valid_set, iteration, model, optimizer, scheduler,
                   epoch_train_set, train_loader, score, val_preds,
                   val_preds_df, test_preds, test_preds_df, files, log,
                   returned, maxSeen, prevMax, firstMax, lastWrote, wroteAny,
                   built, snap, completed, oofWritten>>

NotBest ==
    /\ pc = "cmp"
    /\ ~Better(score, best_score)
    /\ EndEpoch(FALSE, files)
    /\ UNCHANGED <<args, error, gen, fold, bound, train_set, valid_set,
                   iteration, best_score, model, optimizer, scheduler,
                   epoch_train_set, train_loader, score, val_preds,
                   val_preds_df, test_preds, test_preds_df, files, log,
                   returned, built, oofWritten>>

\* ---- lines 197-205: the three best_* files ------------------------------
BestModel ==
    /\ pc = "best_model"
    /\ files' = [files EXCEPT ![Target] = File(<<StateDict>>)]
    /\ pc' = "best_val"
    /\ UNCHANGED <<args, error, gen, fold, epoch, bound, train_set,
                   valid_set, iteration, best_score, model, optimizer,
                   scheduler, epoch_train_set, train_loader, score,
                   val_preds, val_preds_df, test_preds, test_preds_df, log,
                   returned, maxSeen, prevMax, firstMax, lastWrote, wroteAny,
                   built, snap, completed, oofWritten>>

BestVal ==
    /\ pc = "best_val"
    /\ files' = [files EXCEPT ![Target] = File(val_preds_df)]
    /\ pc' = "best_test"
    /\ UNCHANGED <<args, error, gen, fold, epoch, bound, train_set,
                   valid_set, iteration, best_score, model, optimizer,
                   scheduler, epoch_train_set, train_loader, score,
                   val_preds, val_preds_df, test_preds, test_preds_df, log,
                   returned, maxSeen, prevMax, firstMax, lastWrote, wroteAny,
                   built, snap, completed, oofWritten>>

BestTest ==
    /\ pc = "best_test"
    /\ files' = [files EXCEPT ![Target] = File(test_preds_df)]
    /\ EndEpoch(TRUE, [files EXCEPT ![Target] = File(test_preds_df)])
    /\ UNCHANGED <<args, error, gen, fold, bound, train_set, valid_set,
                   iteration, best_score, model, optimizer, scheduler,
                   epoch_train_set, train_loader, score, val_preds,
                   val_preds_df, test_preds, test_preds_df, log, returned,
                   built, oofWritten>>

\* ---- lines 206-209: per-fold cleanup ------------------------------------
\* del raises NameError at the first name that is not bound; the names
\* before it are already deleted
DelNames ==
    <<"model", "optimizer", "criterion", "scheduler",
      "valid_loader", "train_loader", "valid_set", "train_set">>

RECURSIVE DelFrom(_, _)
DelFrom(i, b) ==
    IF i > Len(DelNames) THEN [ok |-> TRUE, bound |-> b]
    ELSE IF DelNames[i] \notin b THEN [ok |-> FALSE, bound |-> b]
    ELSE DelFrom(i + 1, b \ {DelNames[i]})

Cleanup ==
    /\ pc = "cleanup"
    /\ DelFrom(1, bound).ok
    /\ bound' = DelFrom(1, bound).bound
    /\ model' = Unbound.model
    /\ optimizer' = Unbound.optimizer
    /\ scheduler' = Unbound.scheduler
    /\ train_loader' = Unbound.train_loader
    /\ train_set' = Unbound.train_set
    /\ valid_set' = Unbound.valid_set
    /\ pc' = "for_fold"
    /\ UNCHANGED <<args, error, gen, fold, epoch, iteration, best_score,
                   epoch_train_set, score, val_preds, val_preds_df,
                   test_preds, test_preds_df, files, log, returned, maxSeen,
                   prevMax, firstMax, lastWrote, wroteAny, built, snap,
                   completed, oofWritten>>

CleanupNameError ==
    /\ pc = "cleanup"
    /\ ~DelFrom(1, bound).ok
    /\ Raise("NameError")
    /\ Exit
    /\ UNCHANGED <<args, files, log, returned, maxSeen, prevMax, firstMax,
                   lastWrote, wroteAny, built, snap, completed, oofWritten>>

\* ---- lines 213-222: oof.csv ---------------------------------------------
BestValFile(f) == BestPath("predictions", f, "best_val.csv")

AnyFoldUsed == \E f \in Folds : files[BestValFile(f)].exists
AllFoldsUsed == \A f \in Folds : files[BestValFile(f)].exists

\* pd.concat([pd.read_csv(file) for file in best_val_df_files])
RECURSIVE ConcatFrom(_)
ConcatFrom(f) ==
    IF f >= NFolds THEN << >>
    ELSE files[BestValFile(f)].data \o ConcatFrom(f + 1)

OofWrite ==
    /\ pc = "oof"
    /\ AllFoldsUsed
    /\ files' = [files EXCEPT ![OofPath] = File(ConcatFrom(0))]
    /\ oofWritten' = TRUE
    /\ log' = Append(log, [op |-> "oof", fold |-> -1, epoch |-> -1])
    /\ pc' = "done"
    /\ Exit
    /\ UNCHANGED <<args, error, returned, maxSeen, prevMax, firstMax,
                   lastWrote, wroteAny, built, snap, completed>>

OofSkip ==
    /\ pc = "oof"
    /\ ~AllFoldsUsed
    /\ log' = Append(log, [op |-> "oof", fold |-> -1, epoch |-> -1])
    /\ pc' = "done"
    /\ Exit
    /\ UNCHANGED <<args, error, files, returned, maxSeen, prevMax, firstMax,
                   lastWrote, wroteAny, built, snap, completed, oofWritten>>

Next ==
    \/ ForFoldNext \/ ForFoldExhausted
    \/ FoldInit
    \/ ForEpochNext \/ ForEpochExhausted
    \/ EpochTrainSet \/ MakeLoader \/ TrainLoop \/ Evaluate
    \/ SaveModel \/ SaveVal \/ Infer \/ SaveTest
    \/ NewBest \/ NotBest \/ BestModel \/ BestVal \/ BestTest
    \/ Cleanup \/ CleanupNameError
    \/ OofWrite \/ OofSkip
    \/ Fail \/ FailWrite

Spec == Init /\ [][Next]_vars
SpecPseudo == InitPseudo /\ [][Next]_vars
SpecScheduler == InitScheduler /\ [][Next]_vars

\* ======================== properties =====================================
InBody ==
    pc \in {"loader", "train", "evaluate", "save_model", "save_val", "infer",
            "save_test", "cmp", "best_model", "best_val", "best_test"}
Trained ==
    pc \in {"evaluate", "save_model", "save_val", "infer", "save_test", "cmp",
            "best_model", "best_val", "best_test"}
AfterLoader == pc = "train" \/ Trained
BetweenEpochs == pc \in {"for_epoch", "cleanup"}

FromThisRun(p) == files[p].exists /\ files[p].data[1].run = "new"
InFold ==
    pc \in {"for_epoch", "train_set", "cleanup"} \/ InBody
\* paths that epochs completed in this run have written
DonePaths ==
    UNION { EpochPathsOf(c.fold, c.epoch) : c \in completed }
    \cup { p \in UNION { BestPathsOf(c.fold) : c \in completed } :
             snap[p].exists /\ snap[p].data[1].run = "new" }

\* C1: oof.csv is written only when a best_val.csv exists for every fold
\* index; while some fold lacks its best_val.csv there is no oof.csv; and a
\* written oof.csv is the best_val.csv contents in ascending fold order.
C1_OofOnlyIfAllFolds ==
    /\ oofWritten => \A f \in Folds : files[BestValFile(f)].exists
    /\ (\E f \in Folds : ~files[BestValFile(f)].exists)
          => ~oofWritten /\ ~files[OofPath].exists
    /\ oofWritten =>
          /\ files[OofPath].exists
          /\ Len(files[OofPath].data) = NFolds
          /\ \A f \in Folds :
                files[BestValFile(f)].data = <<files[OofPath].data[f + 1]>>
C1_Witness ==
    /\ pc = "done" /\ oofWritten
    /\ \E f \in Folds : files[BestValFile(f)].data[1].run = "old"
    /\ \E f \in Folds : files[BestValFile(f)].data[1].run = "new"

\* C2: the calls happen in the order of a nested loop: fold by fold as
\* yielded, in each fold epochs 0 .. args.epochs-1 ascending, in each epoch
\* train_loop, evaluate, infer; the oof step comes once, after the last
\* fold.  The calls made so far are always a prefix of that order and a run
\* that reaches the end has made exactly these calls.
EpochOps == <<"train_loop", "evaluate", "infer">>
FoldCalls(f) ==
    [i \in 1 .. (3 * args.epochs) |->
        [op |-> EpochOps[((i - 1) % 3) + 1], fold |-> f, epoch |-> (i - 1) \div 3]]
RECURSIVE CallsOf(_)
CallsOf(fs) ==
    IF fs = << >> THEN <<[op |-> "oof", fold |-> -1, epoch |-> -1]>>
    ELSE FoldCalls(Head(fs)) \o CallsOf(Tail(fs))
C2_NestedLoop ==
    /\ IsPrefix(log, CallsOf(Ascending(args.use_folds)))
    /\ pc = "done" => log = CallsOf(Ascending(args.use_folds))
C2_Witness ==
    /\ pc = "done"
    /\ args.epochs >= 2
    /\ Cardinality(args.use_folds) >= 2
    /\ Len(log) = 3 * args.epochs * Cardinality(args.use_folds) + 1

\* C3: once epoch e of fold f has completed, its three per-epoch files exist
\* and hold the model state, validation and test predictions of that epoch,
\* in every later state of the run.
C3_EpochFilesPersist ==
    \A c \in completed :
        /\ files[EpochPath("checkpoints", c.fold, "model_on_epoch", c.epoch)]
              = File(<<Row("model", "new", c.fold, c.epoch + 1)>>)
        /\ files[EpochPath("predictions", c.fold, "val_on_epoch", c.epoch)]
              = File(<<Row("val", "new", c.fold, c.epoch + 1)>>)
        /\ files[EpochPath("predictions", c.fold, "test_on_epoch", c.epoch)]
              = File(<<Row("test", "new", c.fold, c.epoch + 1)>>)
C3_Witness ==
    /\ pc = "done"
    /\ \E c \in completed : c.fold = 0 /\ c.epoch = 0
    /\ \E c \in completed : c.fold = 0 /\ c.epoch = 1
    /\ \E c \in completed : c.fold = 1 /\ c.epoch = 1

\* C4: in every epoch the training set is the fold's train_set alone when
\* no pseudo file is given, and otherwise train_set followed by exactly
\* args.n_pseudo distinct rows of that fold's pseudo file; train_set and
\* valid_set stay what the fold yielded.
C4_PseudoDoesNotAccumulate ==
    InBody =>
        /\ train_set = TrainSet(fold)
        /\ valid_set = ValidSet(fold)
        /\ ~args.pseudo_file => epoch_train_set = <<train_set>>
        /\ args.pseudo_file =>
              /\ Len(epoch_train_set) = 2
              /\ epoch_train_set[1] = train_set
              /\ epoch_train_set[2] \subseteq PseudoDf(fold)
              /\ Cardinality(epoch_train_set[2]) = args.n_pseudo
              /\ DatasetLen(epoch_train_set) = Cardinality(train_set) + args.n_pseudo
C4_Witness ==
    /\ pc = "train" /\ epoch >= 1
    /\ args.pseudo_file /\ args.n_pseudo >= 1

C6_BestEpochBookkeeping ==
    BetweenEpochs =>
        /\ best_score = maxSeen
        /\ (epoch >= 1 /\ score <= prevMax) => ~lastWrote
        /\ (\E p \in BestPathsOf(fold) : FromThisRun(p)) =>
              /\ files[BestPath("checkpoints", fold, "best_model.pth")]
                    = File(<<Row("model", "new", fold, firstMax + 1)>>)
              /\ files[BestPath("predictions", fold, "best_val.csv")]
                    = File(<<Row("val", "new", fold, firstMax + 1)>>)
              /\ files[BestPath("predictions", fold, "best_test.csv")]
                    = File(<<Row("test", "new", fold, firstMax + 1)>>)
C6_Witness ==
    /\ pc = "for_epoch"
    /\ epoch >= 2
    /\ score = 0 /\ prevMax = 0
    /\ firstMax < epoch - 1
    /\ FromThisRun(BestValFile(fold))

\* C7 as stated: model and optimizer are built once per fold, a new
\* scheduler is built on that optimizer every epoch with num_training_steps
\* = args.epochs * len(train_loader) / args.batch_accumulation, it receives
\* at most len(train_loader) steps, and for args.epochs > 1 it never reaches
\* num_training_steps.
SchedulerPerEpoch ==
    /\ \A f \in Folds : built[f] <= 1
    /\ AfterLoader =>
          /\ built[fold] = 1
          /\ optimizer = [fold |-> fold, n |-> 1]
          /\ scheduler.optimizer = optimizer
          /\ scheduler.epoch = epoch
          /\ scheduler.num = args.epochs * train_loader
          /\ scheduler.den = args.batch_accumulation
          /\ scheduler.steps <= train_loader
C7_NeverReachesTrainingSteps ==
    /\ SchedulerPerEpoch
    /\ (AfterLoader /\ args.epochs > 1)
          => scheduler.steps * scheduler.den < scheduler.num

\* C7 amended: as above, but the scheduler is sure to stay below
\* num_training_steps only when args.epochs > args.batch_accumulation and
\* the train_loader has at least one batch.
C7_BelowTrainingSteps ==
    /\ SchedulerPerEpoch
    /\ (AfterLoader /\ args.epochs > args.batch_accumulation /\ train_loader > 0)
          => scheduler.steps * scheduler.den < scheduler.num
C7_Witness ==
    /\ Trained
    /\ epoch >= 1
    /\ args.epochs > args.batch_accumulation
    /\ train_loader > 0
    /\ scheduler.steps = train_loader

\* C8: every fold starts with best_score -1.0, iteration 0 and a fresh model
\* and optimizer; train_loop is passed the iteration the previous epoch's
\* train_loop returned; an epoch updates the best_* files exactly when its
\* score exceeds -1.0 and every earlier score of the same fold.
C8_FoldsIndependent ==
    /\ (pc = "for_epoch" /\ epoch = 0) =>
          /\ best_score = InitBestScore
          /\ iteration = 0
          /\ model = [fold |-> fold, trained |-> 0]
          /\ optimizer = [fold |-> fold, n |-> 1]
    /\ InFold => iteration = returned
    /\ (BetweenEpochs /\ epoch >= 1) => (lastWrote <=> score > prevMax)
C8_Witness ==
    /\ pc = "for_epoch"
    /\ fold = 1
    /\ FromThisRun(BestValFile(0))
    /\ epoch >= 2
    /\ lastWrote /\ score = 0
    /\ iteration > 0

\* C9 as stated: a fold in which at least one epoch has completed has
\* written its best_* files in that fold.
C9_TrainedFoldWritesBest ==
    (BetweenEpochs /\ epoch >= 1) => wroteAny

\* C10 as stated: the per-fold cleanup never fails on an unbound name.
C10_CleanupSucceeds == error # "NameError"

====
